---- MODULE Spec2Model ----
(***************************************************************************)
(* Model of src/python/kubernetes_mcp_server/inference_server.py:          *)
(* the ModelRegistry built at import time, InferenceEngine.predict with    *)
(* its two adapters, and the /infer, /models and /health handlers.         *)
(*                                                                         *)
(* Python values are modelled as follows.                                  *)
(*   - a dict is a sequence of <<key, value>> pairs in insertion order;    *)
(*   - a request's inputs is a tagged record: "str" (one string, a         *)
(*     sequence of words), "strs" (a list of strings), "nums" (a flat list *)
(*     of numbers; the empty list is the "nums" value <<>>), "rows" (a     *)
(*     list of lists of numbers);                                          *)
(*   - a call either returns or raises: [ok |-> TRUE, val |-> v] or        *)
(*     [ok |-> FALSE, exc |-> name of the exception class].                *)
(* The weights of the networks are opaque to the program (SimpleModel is   *)
(* randomly initialised, the text model is downloaded); NetRow and Hidden  *)
(* stand for them as fixed deterministic functions with the data flow of   *)
(* the real layers: a Linear stack maps each row on its own, a transformer *)
(* layer computes a state for every position, padded ones included, from   *)
(* the positions the attention mask admits.                                *)
(***************************************************************************)
EXTENDS Integers, Sequences, FiniteSets, TLC

VARIABLES lpc, models, tokenizers, clock, req

vars == <<lpc, models, tokenizers, clock, req>>

(***************************************************************************)
(* Bounds of the model.                                                    *)
(***************************************************************************)
MaxWords == 2
MaxBatch == 2
MaxClock == 2

(***************************************************************************)
(* Generic helpers.                                                        *)
(***************************************************************************)
RECURSIVE SeqSum(_)
SeqSum(s) == IF s = <<>> THEN 0 ELSE Head(s) + SeqSum(Tail(s))

RECURSIVE GCD(_, _)
GCD(a, b) == IF b = 0 THEN a ELSE GCD(b, a % b)

Max(S) == CHOOSE x \in S : \A y \in S : y <= x

\* A mean kept exact: the fraction total/count in lowest terms.
Mean(total, count) ==
    LET g == GCD(total, count) IN <<total \div g, count \div g>>

Ok(v) == [ok |-> TRUE, val |-> v, exc |-> "none"]
Raise(e) == [ok |-> FALSE, val |-> <<>>, exc |-> e]

(***************************************************************************)
(* dict: insertion-ordered, d[k] = v replaces the value of an existing key *)
(* in place and appends a new key.                                         *)
(***************************************************************************)
DictKeys(d) == [i \in 1..Len(d) |-> d[i][1]]

DictHas(d, k) == \E i \in 1..Len(d) : d[i][1] = k

DictSet(d, k, v) ==
    IF DictHas(d, k)
    THEN [i \in 1..Len(d) |-> IF d[i][1] = k THEN <<k, v>> ELSE d[i]]
    ELSE Append(d, <<k, v>>)

\* dict.get(k): the value, or None.
NoneValue == [kind |-> "None"]
DictGet(d, k) ==
    IF DictHas(d, k)
    THEN d[CHOOSE i \in 1..Len(d) : d[i][1] = k][2]
    ELSE NoneValue

(***************************************************************************)
(* ModelRegistry._load_default_models, one step per statement that can     *)
(* raise or that writes the registry.                                      *)
(***************************************************************************)
SimpleModel(input_size, output_size) ==
    [kind |-> "numeric", input_size |-> input_size, output_size |-> output_size]

TextModel == [kind |-> "text", input_size |-> 0, output_size |-> 0]

TextTokenizer == [kind |-> "tokenizer"]

\* line 60; a raise goes to the outer except, which logs and returns.
LoadDefault ==
    /\ lpc = "default"
    /\ \/ /\ models' = DictSet(models, "default", SimpleModel(10, 1))
          /\ lpc' = "classifier"
       \/ /\ lpc' = "done"
          /\ UNCHANGED models
    /\ UNCHANGED <<tokenizers, clock, req>>

\* line 61
LoadClassifier ==
    /\ lpc = "classifier"
    /\ \/ /\ models' = DictSet(models, "simple_classifier", SimpleModel(4, 3))
          /\ lpc' = "tokenizer"
       \/ /\ lpc' = "done"
          /\ UNCHANGED models
    /\ UNCHANGED <<tokenizers, clock, req>>

\* line 65; a raise goes to the inner except, which logs and falls through.
LoadTokenizer ==
    /\ lpc = "tokenizer"
    /\ lpc' \in {"automodel", "done"}
    /\ UNCHANGED <<models, tokenizers, clock, req>>

\* line 66
LoadTextModel ==
    /\ lpc = "automodel"
    /\ lpc' \in {"reg_model", "done"}
    /\ UNCHANGED <<models, tokenizers, clock, req>>

\* line 67
RegisterTextModel ==
    /\ lpc = "reg_model"
    /\ models' = DictSet(models, "text_embeddings", TextModel)
    /\ lpc' = "reg_tokenizer"
    /\ UNCHANGED <<tokenizers, clock, req>>

\* The slip of storing the tokenizer under another key than its model's.
RegisterTokenizerUnderWrongKey ==
    /\ lpc = "reg_tokenizer"
    /\ tokenizers' = DictSet(tokenizers, "default", TextTokenizer)
    /\ lpc' = "done"
    /\ UNCHANGED <<models, clock, req>>

\* line 68
RegisterTokenizer ==
    /\ lpc = "reg_tokenizer"
    /\ tokenizers' = DictSet(tokenizers, "text_embeddings", TextTokenizer)
    /\ lpc' = "done"
    /\ UNCHANGED <<models, clock, req>>

get_model(model_name) == DictGet(models, model_name)

get_tokenizer(model_name) == DictGet(tokenizers, model_name)

list_models == DictKeys(models)

(***************************************************************************)
(* The tokenizer call of line 119: tokenizer(inputs, padding=True,         *)
(* truncation=True, return_tensors="pt").                                  *)
(***************************************************************************)
\* model_max_length of the tokenizer loaded at line 65.
ModelMaxLength == 512

\* truncation=True: the words are cut so that, with the two special tokens,
\* the sequence has at most ModelMaxLength tokens.
Truncate(words) ==
    IF Len(words) + 2 > ModelMaxLength
    THEN SubSeq(words, 1, ModelMaxLength - 2)
    ELSE words

Tokenize(s) == <<"[CLS]">> \o Truncate(s) \o <<"[SEP]">>

\* padding=True: every sequence of the batch is padded on the right to the
\* longest one; the attention mask is 1 on tokens and 0 on padding.
PadTo(toks, n) == [i \in 1..n |-> IF i <= Len(toks) THEN toks[i] ELSE "[PAD]"]

MaskTo(toks, n) == [i \in 1..n |-> IF i <= Len(toks) THEN 1 ELSE 0]

Encode(batch) ==
    LET toks == [b \in 1..Len(batch) |-> Tokenize(batch[b])]
        longest == Max({Len(toks[b]) : b \in 1..Len(batch)})
    IN [input_ids |-> [b \in 1..Len(batch) |-> PadTo(toks[b], longest)],
        attention_mask |-> [b \in 1..Len(batch) |-> MaskTo(toks[b], longest)]]

\* The tokenizer accepts a list of strings; an empty list has no first
\* encoding to take the keys from, any other value is rejected by its
\* input check.
TokenizerCall(inp) ==
    IF inp.t = "strs" THEN Ok(Encode(inp.v))
    ELSE IF inp.v = <<>> THEN Raise("IndexError")
    ELSE Raise("ValueError")

(***************************************************************************)
(* The text model's forward pass (line 122) and the pooling of line 124.   *)
(***************************************************************************)
TokEmb(tok) ==
    CASE tok = "[PAD]" -> 0
      [] tok = "[CLS]" -> 1
      [] tok = "[SEP]" -> 2
      [] tok = "hello" -> 3
      [] tok = "world" -> 4

\* The state of position i: its own token and position, and the tokens the
\* attention mask admits. A padded position has a state like any other.
Hidden(ids, mask, i) ==
    TokEmb(ids[i]) * 10 + i
      + SeqSum([j \in 1..Len(ids) |-> mask[j] * TokEmb(ids[j])])

last_hidden_state(enc) ==
    [b \in 1..Len(enc.input_ids) |->
        [i \in 1..Len(enc.input_ids[b]) |->
            Hidden(enc.input_ids[b], enc.attention_mask[b], i)]]

\* outputs.last_hidden_state.mean(dim=1): the mean over every position of
\* the padded sequence.
MeanDim1(states) ==
    [b \in 1..Len(states) |-> Mean(SeqSum(states[b]), Len(states[b]))]

(***************************************************************************)
(* InferenceEngine._text_embedding_inference                               *)
(***************************************************************************)
\* lines 111-119: tokenizer lookup, str -> [str], tokenizer call.
TextPrepare(inputs, model_name) ==
    IF get_tokenizer(model_name) = NoneValue
    THEN Raise("ValueError")
    ELSE TokenizerCall(IF inputs.t = "str"
                       THEN [t |-> "strs", v |-> <<inputs.v>>]
                       ELSE inputs)

\* lines 121-126: forward pass, mean pooling, tolist.
TextForward(model, enc) ==
    IF model.kind = "text"
    THEN Ok(MeanDim1(last_hidden_state(enc)))
    ELSE Raise("TypeError")

_text_embedding_inference(inputs, model, model_name) ==
    LET enc == TextPrepare(inputs, model_name)
    IN IF enc.ok THEN TextForward(model, enc.val) ELSE enc

(***************************************************************************)
(* InferenceEngine._numeric_inference                                      *)
(***************************************************************************)
Tensor(rows) == [kind |-> "tensor", rows |-> rows]

\* torch.tensor(list of lists): the rows must share one length.
TensorOfRows(rows) ==
    IF \A i, j \in 1..Len(rows) : Len(rows[i]) = Len(rows[j])
    THEN Ok(Tensor(rows))
    ELSE Raise("ValueError")

\* The slip of making a flat input a column (shape [d, 1]) instead of one
\* sample (shape [1, d]).
NumericPrepareAsColumn(inputs) ==
    IF inputs.v = <<>> THEN Raise("IndexError")
    ELSE IF inputs.t = "nums"
    THEN Ok(Tensor([i \in 1..Len(inputs.v) |-> <<inputs.v[i]>>]))
    ELSE IF inputs.t = "rows" THEN TensorOfRows(inputs.v)
    ELSE IF inputs.t = "str" THEN Raise("TypeError")
    ELSE Raise("ValueError")

\* lines 132-137: inputs[0] raises on an empty sequence; a number there
\* makes the input one sample; anything else goes to torch.tensor as it is,
\* which takes nested lists of numbers only.
NumericPrepare(inputs) ==
    IF inputs.v = <<>> THEN Raise("IndexError")
    ELSE IF inputs.t = "nums" THEN Ok(Tensor(<<inputs.v>>))
    ELSE IF inputs.t = "rows" THEN TensorOfRows(inputs.v)
    ELSE IF inputs.t = "str" THEN Raise("TypeError")
    ELSE Raise("ValueError")

\* The Linear/ReLU stack applied to one row.
NetRow(model, row) ==
    [j \in 1..model.output_size |-> SeqSum(row) * j + j]

\* lines 139-142: the first Linear layer needs rows of input_size features.
NumericForward(model, tensor) ==
    IF model.kind # "numeric" THEN Raise("TypeError")
    ELSE IF \E i \in 1..Len(tensor.rows) : Len(tensor.rows[i]) # model.input_size
    THEN Raise("RuntimeError")
    ELSE Ok([i \in 1..Len(tensor.rows) |-> NetRow(model, tensor.rows[i])])

_numeric_inference(inputs, model) ==
    LET t == NumericPrepare(inputs)
    IN IF t.ok THEN NumericForward(model, t.val) ELSE t

(***************************************************************************)
(* What a call hands to its caller: a returned value or a raised           *)
(* exception. An HTTPException carries its status code and its detail, the *)
(* detail as <<message, argument>>.                                        *)
(***************************************************************************)
Returned(outputs) ==
    [kind |-> "return", status_code |-> 200, detail |-> <<>>, outputs |-> outputs]

HTTPException(status_code, detail) ==
    [kind |-> "HTTPException", status_code |-> status_code,
     detail |-> detail, outputs |-> <<>>]

\* Any exception that is not an HTTPException.
RawException(exc) ==
    [kind |-> "Exception", status_code |-> 0, detail |-> <<exc>>, outputs |-> <<>>]

\* line 97: raise HTTPException(status_code=404, f"Model '{model_name}' not
\* found"). A positional argument after a keyword argument is not Python:
\* the statement has no HTTPException to raise, and the interpreter answers
\* it with a SyntaxError (in fact when it compiles the file; every other
\* statement is modelled as written).
RaiseModelNotFound(model_name) == RawException("SyntaxError")

\* The slip of branching on a name no entry is registered under.
SelectAdapterByMisspeltName(model_name) ==
    IF model_name = "text_embedding" THEN "text" ELSE "numeric"

\* line 100: the branch of predict.
SelectAdapter(model_name) ==
    IF model_name = "text_embeddings" THEN "text" ELSE "numeric"

\* The slip of re-raising the exception of the try block as it is.
InferenceFailedUnwrapped(exc) == RawException(exc)

\* lines 104-106: what predict raises for an exception of the try block.
InferenceFailed(exc) == HTTPException(500, <<"Inference failed", exc>>)

\* lines 92-93
DefaultParameters(parameters) ==
    IF parameters = "None" THEN "{}" ELSE parameters

\* line 163
InputShape(inputs) ==
    CASE inputs.t = "str" -> <<"text">>
      [] inputs.t = "rows" -> <<Len(inputs.v), Len(inputs.v[1])>>
      [] OTHER -> <<Len(inputs.v)>>

(***************************************************************************)
(* The requests. A request r is at one position of its handler:            *)
(*   idle -> lookup -> dispatch -> forward -> in_forward -> respond -> done *)
(* "raised" records the exception the adapter raised, if any.              *)
(***************************************************************************)
Requests == {"r1", "r2"}

IdleRequest ==
    [pc |-> "idle", route |-> "none", inputs |-> NoneValue, model_name |-> "none",
     parameters |-> "none", start_time |-> 0, model |-> NoneValue,
     adapter |-> "none", staged |-> NoneValue, raised |-> "none",
     result |-> NoneValue, response |-> NoneValue]

\* lines 145-148: the handler takes its start time.
InferStart(r, inputs, model_name, parameters) ==
    /\ lpc = "done"
    /\ req[r].pc = "idle"
    /\ req' = [req EXCEPT ![r] =
                  [@ EXCEPT !.pc = "lookup", !.route = "/infer",
                            !.inputs = inputs, !.model_name = model_name,
                            !.parameters = parameters, !.start_time = clock]]
    /\ UNCHANGED <<lpc, models, tokenizers, clock>>

\* lines 92-97
PredictLookup(r) ==
    LET q == req[r]
        model == get_model(q.model_name)
    IN /\ q.pc = "lookup"
       /\ req' = [req EXCEPT ![r] =
                     IF model = NoneValue
                     THEN [q EXCEPT !.pc = "respond",
                                    !.parameters = DefaultParameters(q.parameters),
                                    !.result = RaiseModelNotFound(q.model_name)]
                     ELSE [q EXCEPT !.pc = "dispatch",
                                    !.parameters = DefaultParameters(q.parameters),
                                    !.model = model]]
       /\ UNCHANGED <<lpc, models, tokenizers, clock>>

\* lines 99-103, up to the forward pass of the adapter taken.
PredictDispatch(r) ==
    LET q == req[r]
        adapter == SelectAdapter(q.model_name)
        prep == IF adapter = "text"
                THEN TextPrepare(q.inputs, q.model_name)
                ELSE NumericPrepare(q.inputs)
    IN /\ q.pc = "dispatch"
       /\ req' = [req EXCEPT ![r] =
                     IF prep.ok
                     THEN [q EXCEPT !.pc = "forward", !.adapter = adapter,
                                    !.staged = prep.val]
                     ELSE [q EXCEPT !.pc = "respond", !.adapter = adapter,
                                    !.raised = prep.exc,
                                    !.result = InferenceFailed(prep.exc)]]
       /\ UNCHANGED <<lpc, models, tokenizers, clock>>

\* lines 121 and 139: the request enters the forward pass of its handle.
ForwardBegin(r) ==
    /\ req[r].pc = "forward"
    /\ req' = [req EXCEPT ![r].pc = "in_forward"]
    /\ UNCHANGED <<lpc, models, tokenizers, clock>>

\* lines 122-126 and 140-142: the forward pass ends; predict returns the
\* outputs or, through lines 104-106, raises.
ForwardEnd(r) ==
    LET q == req[r]
        out == IF q.adapter = "text"
               THEN TextForward(q.model, q.staged)
               ELSE NumericForward(q.model, q.staged)
    IN /\ q.pc = "in_forward"
       /\ req' = [req EXCEPT ![r] =
                     IF out.ok
                     THEN [q EXCEPT !.pc = "respond", !.result = Returned(out.val)]
                     ELSE [q EXCEPT !.pc = "respond", !.raised = out.exc,
                                    !.result = InferenceFailed(out.exc)]]
       /\ UNCHANGED <<lpc, models, tokenizers, clock>>

\* line 157
ProcessingTime(now, start_time) == (now - start_time) * 1000

\* lines 157-170: the response, or the HTTPException the transport answers
\* with.
InferRespond(r) ==
    LET q == req[r]
    IN /\ q.pc = "respond"
       /\ req' = [req EXCEPT ![r] =
             [q EXCEPT !.pc = "done", !.response =
                 CASE q.result.kind = "return" ->
                        [status_code |-> 200, detail |-> <<>>,
                         outputs |-> q.result.outputs,
                         model_name |-> q.model_name,
                         processing_time_ms |-> ProcessingTime(clock, q.start_time),
                         metadata |-> InputShape(q.inputs)]
                   [] q.result.kind = "HTTPException" ->
                        [status_code |-> q.result.status_code,
                         detail |-> q.result.detail,
                         outputs |-> <<>>, model_name |-> q.model_name,
                         processing_time_ms |-> 0, metadata |-> <<>>]
                   [] OTHER ->
                        [status_code |-> 500, detail |-> <<"Internal server error">>,
                         outputs |-> <<>>, model_name |-> q.model_name,
                         processing_time_ms |-> 0, metadata |-> <<>>]]]
       /\ UNCHANGED <<lpc, models, tokenizers, clock>>

\* lines 172-178: GET /models
ListModels(r) ==
    /\ lpc = "done"
    /\ req[r].pc = "idle"
    /\ req' = [req EXCEPT ![r] =
                  [@ EXCEPT !.pc = "done", !.route = "/models", !.response =
                      [status_code |-> 200, detail |-> <<>>,
                       outputs |-> <<list_models, Len(list_models)>>,
                       model_name |-> "none", processing_time_ms |-> 0,
                       metadata |-> <<>>]]]
    /\ UNCHANGED <<lpc, models, tokenizers, clock>>

\* lines 180-187: GET /health
Health(r) ==
    /\ lpc = "done"
    /\ req[r].pc = "idle"
    /\ req' = [req EXCEPT ![r] =
                  [@ EXCEPT !.pc = "done", !.route = "/health", !.response =
                      [status_code |-> 200, detail |-> <<>>,
                       outputs |-> <<"healthy", Len(list_models)>>,
                       model_name |-> "none", processing_time_ms |-> 0,
                       metadata |-> <<>>]]]
    /\ UNCHANGED <<lpc, models, tokenizers, clock>>

(***************************************************************************)
(* time.time(): the wall clock. It advances, and it is set back when the   *)
(* system time is adjusted.                                                *)
(***************************************************************************)
ClockTick ==
    /\ clock < MaxClock
    /\ clock' = clock + 1
    /\ UNCHANGED <<lpc, models, tokenizers, req>>

ClockSetBack ==
    /\ clock > 0
    /\ clock' \in 0..(clock - 1)
    /\ UNCHANGED <<lpc, models, tokenizers, req>>

(***************************************************************************)
(* The values requests are made with.                                      *)
(***************************************************************************)
Words == {"hello", "world"}

Strings == UNION {[1..n -> Words] : n \in 0..MaxWords}

RowLens == {0, 4, 10}

RowVals == {1, 2}

Rows == {[i \in 1..d |-> v] : d \in RowLens, v \in RowVals}

StrInputs == {[t |-> "str", v |-> s] : s \in Strings}

StrsInputs ==
    {[t |-> "strs", v |-> b] : b \in UNION {[1..n -> Strings] : n \in 1..MaxBatch}}

NumsInputs == {[t |-> "nums", v |-> w] : w \in Rows}

RowsInputs ==
    {[t |-> "rows", v |-> b] : b \in UNION {[1..n -> Rows] : n \in 1..MaxBatch}}

ModelNames == {"default", "simple_classifier", "text_embeddings", "ghost"}

Parameters == {"None", "{'k': 1}"}

\* The requests made while steps of handlers interleave.
FewTextInputs == {[t |-> "str", v |-> <<"hello">>]}

FewNumericInputs == {[t |-> "nums", v |-> [i \in 1..10 |-> 1]]}

FewModelNames == {"default", "text_embeddings"}

(***************************************************************************)
(* Spec: the registry is loaded, then a request is served, with every      *)
(* input. The clock stands still here; SpecConcurrent moves it.            *)
(***************************************************************************)
Init ==
    /\ lpc = "default"
    /\ models = <<>>
    /\ tokenizers = <<>>
    /\ clock = 0
    /\ req = [r \in Requests |-> IdleRequest]

Load ==
    \/ LoadDefault
    \/ LoadClassifier
    \/ LoadTokenizer
    \/ LoadTextModel
    \/ RegisterTextModel
    \/ RegisterTokenizer

Serve(r) ==
    \/ PredictLookup(r)
    \/ PredictDispatch(r)
    \/ ForwardBegin(r)
    \/ ForwardEnd(r)
    \/ InferRespond(r)
    \/ ListModels(r)
    \/ Health(r)

\* POST /infer with any inputs, model name and parameters. The guard of
\* InferStart is repeated in front, so that the inputs are enumerated only
\* for a request that can start.
Infer(r) ==
    /\ lpc = "done"
    /\ req[r].pc = "idle"
    /\ \E model_name \in ModelNames, parameters \in Parameters :
          \/ \E inputs \in StrInputs : InferStart(r, inputs, model_name, parameters)
          \/ \E inputs \in StrsInputs : InferStart(r, inputs, model_name, parameters)
          \/ \E inputs \in NumsInputs : InferStart(r, inputs, model_name, parameters)
          \/ \E inputs \in RowsInputs : InferStart(r, inputs, model_name, parameters)

Next ==
    \/ Load
    \/ Infer("r1")
    \/ Serve("r1")

Spec == Init /\ [][Next]_vars

(***************************************************************************)
(* SpecConcurrent: the transport runs the handlers of two requests at      *)
(* once, their steps interleaved in any order, while the clock moves.      *)
(* predict takes no lock and awaits nothing that would order the requests: *)
(* whether two handlers overlap is left to whatever drives them.           *)
(***************************************************************************)
InferFew(r) ==
    /\ lpc = "done"
    /\ req[r].pc = "idle"
    /\ \E model_name \in FewModelNames :
          \/ \E inputs \in FewTextInputs : InferStart(r, inputs, model_name, "None")
          \/ \E inputs \in FewNumericInputs : InferStart(r, inputs, model_name, "None")

NextConcurrent ==
    \/ Load
    \/ \E r \in Requests : InferFew(r)
    \/ \E r \in Requests : Serve(r)
    \/ ClockTick
    \/ ClockSetBack

SpecConcurrent == Init /\ [][NextConcurrent]_vars

(***************************************************************************)
(* Vocabulary of the properties.                                           *)
(***************************************************************************)
\* predict has ended for request r of POST /infer.
PredictEnded(r) ==
    /\ req[r].route = "/infer"
    /\ req[r].pc \in {"respond", "done"}

Registered(model_name) == DictHas(models, model_name)

HasTokenizer(model_name) == DictHas(tokenizers, model_name)

\* The strings a text request embeds, in order.
TextBatch(inputs) == IF inputs.t = "str" THEN <<inputs.v>> ELSE inputs.v

\* The samples of a numeric request, in order.
Samples(inputs) == IF inputs.t = "nums" THEN <<inputs.v>> ELSE inputs.v

\* A flat sequence of numbers, or a sequence of rows of one length.
ShapedNumeric(inputs) ==
    /\ inputs.v # <<>>
    /\ \/ inputs.t = "nums"
       \/ /\ inputs.t = "rows"
          /\ \A i, j \in 1..Len(inputs.v) : Len(inputs.v[i]) = Len(inputs.v[j])

Ragged(inputs) ==
    /\ inputs.t = "rows"
    /\ \E i, j \in 1..Len(inputs.v) : Len(inputs.v[i]) # Len(inputs.v[j])

(***************************************************************************)
(* C1: for every model name that is not a key of the registry, whatever    *)
(* the inputs and the parameters, predict ends in the ModelNotFound error  *)
(* (HTTP 404) carrying that name, without running an adapter and without   *)
(* any other error or fault.                                               *)
(***************************************************************************)
UnknownModelEndsInModelNotFound ==
    \A r \in Requests :
        (PredictEnded(r) /\ ~Registered(req[r].model_name)) =>
            /\ req[r].result.kind = "HTTPException"
            /\ req[r].result.status_code = 404
            /\ req[r].result.detail = <<"Model not found", req[r].model_name>>
            /\ req[r].adapter = "none"

AdapterFailureIsInferenceFailure ==
    \A r \in Requests :
        /\ (req[r].route = "/infer" /\ req[r].raised # "none") =>
              /\ req[r].pc \in {"respond", "done"}
              /\ req[r].result.kind = "HTTPException"
              /\ req[r].result.status_code = 500
              /\ req[r].result.detail = <<"Inference failed", req[r].raised>>
              /\ req[r].pc = "done" =>
                    /\ req[r].response.status_code = 500
                    /\ req[r].response.detail = <<"Inference failed", req[r].raised>>
        /\ (PredictEnded(r) /\ Registered(req[r].model_name)) =>
              /\ req[r].result.kind \in {"return", "HTTPException"}
              /\ req[r].result.kind = "return" <=> req[r].raised = "none"
              /\ (req[r].pc = "done" /\ req[r].response.status_code = 200) =>
                    req[r].raised = "none"
              /\ req[r].inputs.v = <<>> /\ req[r].inputs.t # "str" =>
                    req[r].raised # "none"

EmptyInputsFailureIsWrapped ==
    \E r \in Requests :
        /\ req[r].pc = "done"
        /\ req[r].model_name = "default"
        /\ req[r].inputs.t = "nums"
        /\ req[r].inputs.v = <<>>
        /\ req[r].raised = "IndexError"
        /\ req[r].response.status_code = 500

(***************************************************************************)
(* C4: for a registered numeric entry and a well-formed input, the output  *)
(* has one row per sample, in the order of the samples: a flat sequence of *)
(* d numbers is one sample (tensor shape [1, d]) and gives 1 row, n rows   *)
(* of one length give n rows.                                              *)
(***************************************************************************)
NumericBatchDimension ==
    \A r \in Requests :
        LET q == req[r] IN
        (q.route = "/infer" /\ q.model.kind = "numeric" /\ ShapedNumeric(q.inputs)) =>
            /\ (q.pc \in {"forward", "in_forward"} /\ q.inputs.t = "nums") =>
                  q.staged.rows = <<q.inputs.v>>
            /\ (PredictEnded(r) /\ q.result.kind = "return") =>
                  /\ Len(q.result.outputs) = Len(Samples(q.inputs))
                  /\ \A i \in 1..Len(Samples(q.inputs)) :
                        q.result.outputs[i] = NetRow(q.model, Samples(q.inputs)[i])
            /\ (PredictEnded(r) /\ \A i \in 1..Len(Samples(q.inputs)) :
                    Len(Samples(q.inputs)[i]) = q.model.input_size) =>
                  q.result.kind = "return"

NumericBatchServed ==
    \E r \in Requests :
        /\ req[r].pc = "done"
        /\ req[r].model_name = "simple_classifier"
        /\ req[r].inputs.t = "rows"
        /\ Len(req[r].inputs.v) = MaxBatch
        /\ req[r].inputs.v[1] # req[r].inputs.v[MaxBatch]
        /\ req[r].result.kind = "return"
        /\ Len(req[r].response.outputs) = MaxBatch

(***************************************************************************)
(* C5: for a registered text entry the text adapter returns one vector per *)
(* input string, in input order, and the vector of a string does not       *)
(* depend on the batch it is embedded in: a string alone, the one-element  *)
(* batch of it, and the string beside another of a different token length  *)
(* all give the same vector.                                               *)
(***************************************************************************)
EmbeddedAlone(s, model, model_name) ==
    _text_embedding_inference([t |-> "str", v |-> s], model, model_name).val[1]

TextBatchingInvariant ==
    \A r \in Requests :
        LET q == req[r] IN
        (PredictEnded(r) /\ q.adapter = "text" /\ q.result.kind = "return") =>
            /\ Len(q.result.outputs) = Len(TextBatch(q.inputs))
            /\ \A i \in 1..Len(TextBatch(q.inputs)) :
                  q.result.outputs[i] =
                      EmbeddedAlone(TextBatch(q.inputs)[i], q.model, q.model_name)

(***************************************************************************)
(* C7: for a registered numeric entry and rows that do not share one       *)
(* length, predict fails with the error kind InvalidInputShape (HTTP 400), *)
(* not with the generic InferenceFailure, and runs no forward pass.        *)
(***************************************************************************)
RaggedBatchIsInvalidInputShape ==
    \A r \in Requests :
        LET q == req[r] IN
        (PredictEnded(r) /\ q.model.kind = "numeric" /\ Ragged(q.inputs)) =>
            /\ q.staged = NoneValue
            /\ q.result.kind = "HTTPException"
            /\ q.result.status_code = 400
            /\ q.result.detail[1] = "InvalidInputShape"

(***************************************************************************)
(* C8: under any interleaving of requests, no two predict calls are inside *)
(* the forward pass of the same model handle at once.                      *)
(***************************************************************************)
ForwardPassesSerialized ==
    \A r1, r2 \in Requests :
        (r1 # r2 /\ req[r1].pc = "in_forward" /\ req[r2].pc = "in_forward") =>
            req[r1].model_name # req[r2].model_name

(***************************************************************************)
(* C9: in every successful response of /infer, processing_time_ms is at    *)
(* least 0, however the clock behaves between the start of the request and *)
(* the end of the adapter.                                                 *)
(***************************************************************************)
ProcessingTimeNonNegative ==
    \A r \in Requests :
        (req[r].route = "/infer" /\ req[r].pc = "done"
            /\ req[r].response.status_code = 200) =>
            req[r].response.processing_time_ms >= 0

(***************************************************************************)
(* C10: once the registry is loaded, also when loading stopped part-way:   *)
(* entry names are unique, every tokenizer key is a model key, the text    *)
(* model and its tokenizer are both registered or both absent, no numeric  *)
(* entry has a tokenizer and every text entry has one; and no request      *)
(* (predict, list, health) changes the registry.                           *)
(***************************************************************************)
UniqueKeys(d) == \A i, j \in 1..Len(d) : d[i][1] = d[j][1] => i = j

RegistryWellFormed ==
    /\ UniqueKeys(models)
    /\ UniqueKeys(tokenizers)
    /\ \A i \in 1..Len(tokenizers) : Registered(tokenizers[i][1])
    /\ Registered("text_embeddings") <=> HasTokenizer("text_embeddings")
    /\ \A i \in 1..Len(models) :
          /\ models[i][2].kind = "numeric" => ~HasTokenizer(models[i][1])
          /\ models[i][2].kind = "text" => HasTokenizer(models[i][1])

RegistryInvariant ==
    /\ [](lpc = "done" => RegistryWellFormed)
    /\ [][lpc = "done" => UNCHANGED <<models, tokenizers>>]_vars

PartialLoadThenServed ==
    \E r \in Requests :
        /\ lpc = "done"
        /\ Registered("simple_classifier")
        /\ ~Registered("text_embeddings")
        /\ req[r].pc = "done"
        /\ req[r].route = "/infer"
        /\ req[r].model_name = "text_embeddings"

====
